---- MODULE Spec2Model ----
(***************************************************************************)
(* Model of src/src/main.py: the GroupState store (groups, user-to-group   *)
(* map, pending-requests map) and the command handlers built on it.        *)
(*                                                                         *)
(* Every handler is a function of the current state and its inputs that    *)
(* yields the next store, bot_data, chat_data and an outcome: the text of  *)
(* the last reply the handler sends, or the name of the exception that     *)
(* leaves it.  The actions apply these functions.                          *)
(***************************************************************************)
EXTENDS Integers, Sequences, FiniteSets, TLC

\* Number of Telegram users (their ids are 1..NumUsers).
NumUsers == 2
\* Most group ids the lists of the pending-requests map hold together.
MaxPending == 2

\* Most people in a roster handed to the matching engine.
MaxRoster == 3
\* Most giver-receiver pairs that invalid_links forbids.
MaxForbidden == 2
\* TIMEOUT = 0.2 seconds, the clock counting in steps of 0.2 seconds.
TIMEOUT == 1

\* Most handlers suspended at an await at one time.
MaxInflight == 2

Users == 1..NumUsers
People == 1..MaxRoster

(***************************************************************************)
(* Python values that reach a dict lookup.  An int and the str of its      *)
(* decimal digits are different keys: "7" in {7: g} is False.              *)
(***************************************************************************)
PyInt(n) == [t |-> "int", v |-> n]
PyStr(n) == [t |-> "str", v |-> n]
NoArgs == [t |-> "none", v |-> 0]

\* int(s) for a str of decimal digits.
int(s) == PyInt(s.v)
\* f"{n}" for an int.
str(n) == PyStr(n.v)

\* context.args[0] of /join_group: the CommandHandler hands over the text
\* tokens (str); a direct call of the handler may hand over an int.
JoinArgs == {PyStr(n) : n \in Users} \cup {PyInt(n) : n \in Users} \cup {NoArgs}

\* callback_query.data: the Accept button of join_group and the three
\* buttons of get_settings_keyboard.
AcceptData(u) == [kind |-> "accept@", arg |-> str(PyInt(u))]
SettingsData == {[kind |-> k, arg |-> NoArgs] :
                   k \in {"change_deadline", "toggle_accept_odd", "toggle_include_admin"}}
CallbackData == {AcceptData(u) : u \in Users} \cup SettingsData

VARIABLES
  groups,            \* GroupState.__groups: group id -> Group
  user_to_group,     \* GroupState.__user_to_group: user id -> group id
  pending_requests,  \* GroupState.__pending_requests: user id -> list of group ids
  bot_data,          \* context.bot_data: which keys it holds
  chat_data,         \* context.chat_data of each user's chat
  last,              \* the last call: operation and outcome
  inflight,          \* handler coroutines suspended at an await
  users,             \* loop: the list it shuffles
  invalid_links,     \* loop: who must not give to whom
  start_time,        \* loop: time.time() at entry
  now,               \* time.time()
  loop_pc,           \* loop: where it stands
  pairs              \* loop: the dict it returns

storeVars == <<groups, user_to_group, pending_requests, bot_data, chat_data, last>>
matchVars == <<users, invalid_links, start_time, now, loop_pc, pairs>>
vars == <<groups, user_to_group, pending_requests, bot_data, chat_data, last,
          inflight, users, invalid_links, start_time, now, loop_pc, pairs>>

EmptyMap == [x \in {} |-> 0]
Put(f, k, val) == [x \in DOMAIN f \cup {k} |-> IF x = k THEN val ELSE f[x]]
Pop(f, k) == [x \in DOMAIN f \ {k} |-> f[x]]

\* The three maps of a GroupState object.
Store == [groups |-> groups, user_to_group |-> user_to_group,
          pending_requests |-> pending_requests]

Settings == [deadline |-> "now+1day", accept_odd |-> FALSE, include_admin |-> FALSE]
Group(id, admin) == [id |-> id, admin |-> admin, settings |-> Settings]

\* What a GroupState method leaves behind: the store and the exception raised.
Returned(S) == [S |-> S, exc |-> "none"]
Raised(S, e) == [S |-> S, exc |-> e]

(***************************************************************************)
(* GroupState                                                              *)
(***************************************************************************)
\* key in dict, for a dict whose keys are ints
dict_contains(d, key) == key.t = "int" /\ key.v \in DOMAIN d

add_group(S, group) == [S EXCEPT !.groups = Put(@, group.id, group)]

\* add_pending_request without the test of line 82 that the group exists
add_pending_request_any_group(S, user, group_id) ==
  IF user \in DOMAIN S.user_to_group
    THEN Raised(S, "GroupStateException")
  ELSE Returned([S EXCEPT !.pending_requests =
         Put(@, user, Append(IF user \in DOMAIN @ THEN @[user] ELSE <<>>, group_id))])

add_pending_request(S, user, group_id) ==
  IF group_id \notin DOMAIN S.groups
    THEN Raised(S, "GroupStateException")
  ELSE IF user \in DOMAIN S.user_to_group
    THEN Raised(S, "GroupStateException")
  ELSE Returned([S EXCEPT !.pending_requests =
         Put(@, user, Append(IF user \in DOMAIN @ THEN @[user] ELSE <<>>, group_id))])

\* approve_pending_request without its last line, the pop of the request
approve_pending_request_no_pop(S, user, group_id) ==
  IF group_id \notin DOMAIN S.groups
    THEN Raised(S, "GroupStateException")
  ELSE IF ~(user \in DOMAIN S.pending_requests
            /\ \E i \in DOMAIN S.pending_requests[user] :
                  S.pending_requests[user][i] = group_id)
    THEN Raised(S, "GroupStateException")
  ELSE Returned([S EXCEPT !.user_to_group = Put(@, user, group_id)])

approve_pending_request(S, user, group_id) ==
  IF group_id \notin DOMAIN S.groups
    THEN Raised(S, "GroupStateException")
  ELSE IF ~(user \in DOMAIN S.pending_requests
            /\ \E i \in DOMAIN S.pending_requests[user] :
                  S.pending_requests[user][i] = group_id)
    THEN Raised(S, "GroupStateException")
  ELSE Returned([S EXCEPT !.user_to_group = Put(@, user, group_id),
                          !.pending_requests = Pop(@, user)])

remove_user_from_group(S, user) ==
  IF user \in DOMAIN S.user_to_group
    THEN Returned([S EXCEPT !.user_to_group = Pop(@, user)])
    ELSE Raised(S, "GroupStateException")

remove_user_from_pending_group(S, user) ==
  IF user \in DOMAIN S.pending_requests
    THEN Returned([S EXCEPT !.pending_requests = Pop(@, user)])
    ELSE Raised(S, "GroupStateException")

get_pending_request_for_user(S, user_id) ==
  IF user_id \in DOMAIN S.pending_requests
    THEN <<S.pending_requests[user_id]>>
    ELSE << >>

is_user_in_group(S, user) == user \in DOMAIN S.user_to_group

is_user_pending(S, user) == user \in DOMAIN S.pending_requests

\* is_user_in_group_or_pending without the call of is_user_pending
is_user_in_group_or_pending_not_pending(S, user) == is_user_in_group(S, user)

is_user_in_group_or_pending(S, user) ==
  is_user_pending(S, user) \/ is_user_in_group(S, user)

\* is_user_admin whose loop never finds the user
is_user_admin_never(S, user) == FALSE

is_user_admin(S, user) == \E g \in DOMAIN S.groups : S.groups[g].admin = user

\* The group the loop `for group_id, group in get_all_groups().items()`
\* stops at: the one whose admin is the caller.  Every Group is built as
\* Group(id=user.id, admin=user), so there is at most one (AdminOfOneGroup).
\* the loop stopping at the first group, whoever its admin is
admin_groups_any(S, user) == DOMAIN S.groups

admin_groups(S, user) == {g \in DOMAIN S.groups : S.groups[g].admin = user}
admin_group(S, user) == CHOOSE g \in admin_groups(S, user) : TRUE


(***************************************************************************)
(* Handlers.  Each yields [S, bot_data, chat_data, outcome].               *)
(***************************************************************************)
Result(S, bd, cd, outcome) ==
  [S |-> S, bot_data |-> bd, chat_data |-> cd, outcome |-> outcome]

\* context.bot_data.setdefault("group_state", GroupState())
setdefault_group_state == [bot_data EXCEPT !.group_state = TRUE]

\* bool(context.bot_data): the dict holds a key
bot_data_nonempty == bot_data.group_state \/ bot_data.group_ids # {}

create_group(u) ==
  LET bd == setdefault_group_state IN
  IF is_user_in_group_or_pending(Store, u) \/ is_user_admin(Store, u)
    THEN Result(Store, bd, chat_data, "you are already in a group.")
    ELSE Result(add_group(Store, Group(u, u)), bd, chat_data,
                "Group created successfully!")

join_group(u, args) ==
  LET bd == setdefault_group_state IN
  IF args = NoArgs
    THEN Result(Store, bd, chat_data, "AssertionError")
  ELSE IF ~dict_contains(groups, args)
    THEN Result(Store, bd, chat_data, "Invalid group ID.")
  ELSE IF is_user_in_group(Store, u) \/ is_user_admin(Store, u)
    THEN Result(Store, bd, chat_data, "You are already in a group.")
  ELSE
    LET added == add_pending_request(Store, u, args.v) IN
    IF added.exc # "none"
      THEN Result(added.S, bd, chat_data, added.exc)
    ELSE
      LET removed == remove_user_from_group(added.S, u) IN
      IF removed.exc # "none"
        THEN Result(removed.S, bd, chat_data, removed.exc)
        ELSE Result(removed.S, bd, chat_data, "You have requested to join group")

\* Both loops run over context.bot_data.values() and read .users of the
\* first value.  The first key ever set is "group_state", and neither
\* GroupState nor Group has an attribute users.
leave_group(u) ==
  IF bot_data_nonempty
    THEN Result(Store, bot_data, chat_data, "AttributeError")
    ELSE Result(Store, bot_data, chat_data, "You are not part of any group.")

start_matching(u) ==
  IF bot_data_nonempty
    THEN Result(Store, bot_data, chat_data, "AttributeError")
    ELSE Result(Store, bot_data, chat_data,
                "You are not an admin or not part of any group.")

\* The list users of lines 511-515, if the handler gets to build it.  The
\* search for the admin's group fails on the first value of bot_data, and
\* finds no group when bot_data is empty.  Line 515 would append the admin
\* whatever include_admin says: the test of line 514 is a comment.
start_matching_users(u) ==
  IF bot_data_nonempty
    THEN [built |-> FALSE, users |-> << >>]
    ELSE [built |-> FALSE, users |-> << >>]

\* a toggle that flips the setting in every group
toggle_every_group(S, g, data) ==
  IF data.kind = "toggle_accept_odd"
    THEN [S EXCEPT !.groups = [h \in DOMAIN @ |-> [@[h] EXCEPT !.settings.accept_odd = ~@]]]
  ELSE IF data.kind = "toggle_include_admin"
    THEN [S EXCEPT !.groups = [h \in DOMAIN @ |-> [@[h] EXCEPT !.settings.include_admin = ~@]]]
  ELSE S

toggle(S, g, data) ==
  IF data.kind = "toggle_accept_odd"
    THEN [S EXCEPT !.groups[g].settings.accept_odd = ~@]
  ELSE IF data.kind = "toggle_include_admin"
    THEN [S EXCEPT !.groups[g].settings.include_admin = ~@]
  ELSE S

\* chat_data is falsy in every chat: its only write (line 432) sits behind a
\* test of its own truth.  Were it set, the loop over bot_data.values()
\* would read .admin of the GroupState object.
text_handler(u) ==
  IF chat_data[u] = "{deadline_change: True}" /\ bot_data_nonempty
    THEN Result(Store, bot_data, chat_data, "AttributeError")
    ELSE Result(Store, bot_data, chat_data, "Hmmmmmmmmmmmmmmm.")

\* lines 429-452: the loop over the groups after the accept@ branch
change_settings(u, data, bd) ==
  IF admin_groups(Store, u) # {}
    THEN
      LET g == admin_group(Store, u) IN
      IF chat_data[u] # "{}" /\ data.kind = "change_deadline"
        THEN Result(Store, bd, [chat_data EXCEPT ![u] = "{deadline_change: True}"],
                    "Please send the new deadline in seconds (as an integer):")
        ELSE Result(toggle(Store, g, data),
                    [bd EXCEPT !.group_ids = @ \cup {g}], chat_data, "Settings:")
    ELSE Result(Store, bd, chat_data,
                "You do not have permission to change settings.")

handle_settings_change(u, data) ==
  LET bd == setdefault_group_state IN
  IF data.kind = "accept@"
    THEN
      LET user_id == int(data.arg).v
          user == get_pending_request_for_user(Store, user_id)
      IN
      IF user # << >> /\ is_user_in_group(Store, user_id)
        THEN Result(Store, bd, chat_data, "You are already in a group.")
      ELSE IF user # << >> /\ is_user_admin(Store, user_id)
        THEN Result(Store, bd, chat_data, "You are already in a group.")
      ELSE IF admin_groups(Store, u) # {}
        THEN
          LET group_id == admin_group(Store, u) IN
          IF user # << >> /\ ~(\E i \in DOMAIN user[1] : user[1][i] = group_id)
            THEN Result(Store, bd, chat_data,
                        "Sorry the user has not requested to join any group")
          ELSE IF user = << >>
            THEN Result(Store, bd, chat_data, "AssertionError")
          ELSE
            LET added == add_pending_request(Store, user_id, group_id) IN
            IF added.exc # "none"
              THEN Result(added.S, bd, chat_data, added.exc)
              ELSE Result(added.S, bd, chat_data, "User accepted.")
      \* "You are not qualified to add a user to a group." is followed by
      \* no return: the handler goes on to the settings loop.
      ELSE change_settings(u, data, bd)
    ELSE change_settings(u, data, bd)

(***************************************************************************)
(* The state machine                                                       *)
(***************************************************************************)
StoreInit ==
  /\ groups = EmptyMap
  /\ user_to_group = EmptyMap
  /\ pending_requests = EmptyMap
  /\ bot_data = [group_state |-> FALSE, group_ids |-> {}]
  /\ chat_data = [u \in Users |-> "{}"]
  /\ last = [op |-> "none", outcome |-> "none"]
  /\ inflight = {}

\* no call of loop is under way
MatchIdle ==
  /\ users = << >>
  /\ invalid_links = {}
  /\ start_time = 0
  /\ now = 0
  /\ loop_pc = "idle"
  /\ pairs = EmptyMap

Init == StoreInit /\ MatchIdle

RECURSIVE PendingCount(_, _)
PendingCount(pending, us) ==
  IF us = {} THEN 0
  ELSE LET u == CHOOSE x \in us : TRUE
       IN Len(pending[u]) + PendingCount(pending, us \ {u})

WithinBounds(S) ==
  PendingCount(S.pending_requests, DOMAIN S.pending_requests) <= MaxPending

Apply(r, op, u) ==
  /\ WithinBounds(r.S)
  /\ groups' = r.S.groups
  /\ user_to_group' = r.S.user_to_group
  /\ pending_requests' = r.S.pending_requests
  /\ bot_data' = r.bot_data
  /\ chat_data' = r.chat_data
  /\ last' = [op |-> op, outcome |-> r.outcome]
  /\ UNCHANGED <<inflight, matchVars>>

CreateGroup == \E u \in Users : Apply(create_group(u), "create_group", u)

JoinGroup == \E u \in Users, args \in JoinArgs : Apply(join_group(u, args), "join_group", u)

LeaveGroup == \E u \in Users : Apply(leave_group(u), "leave_group", u)

StartMatching == \E u \in Users : Apply(start_matching(u), "start_matching", u)

\* a press of the Accept button
HandleAccept ==
  \E u \in Users, p \in Users :
    Apply(handle_settings_change(u, AcceptData(p)), "accept@", u)

\* a press of a button of the settings keyboard
HandleSettings ==
  \E u \in Users, data \in SettingsData :
    Apply(handle_settings_change(u, data), data.kind, u)

TextHandler == \E u \in Users : Apply(text_handler(u), "text_handler", u)

Next ==
  \/ CreateGroup
  \/ JoinGroup
  \/ LeaveGroup
  \/ StartMatching
  \/ HandleAccept
  \/ HandleSettings
  \/ TextHandler

Spec == Init /\ [][Next]_vars

(***************************************************************************)
(* The membership store on its own: the GroupState methods called on the   *)
(* object held in bot_data, next to the handlers that read or write the    *)
(* three maps.  A Group is built as create_group builds it; the settings   *)
(* keyboard, which touches no map, is left to Spec.                        *)
(***************************************************************************)
Call(r, op, u) ==
  /\ bot_data.group_state
  /\ Apply(Result(r.S, bot_data, chat_data, r.exc), op, u)

AddGroup == \E u \in Users : Call(Returned(add_group(Store, Group(u, u))), "add_group", u)

AddPendingRequest ==
  \E u \in Users, g \in Users :
    Call(add_pending_request(Store, u, g), "add_pending_request", u)

ApprovePendingRequest ==
  \E u \in Users, g \in Users :
    Call(approve_pending_request(Store, u, g), "approve_pending_request", u)

RemoveUserFromGroup ==
  \E u \in Users : Call(remove_user_from_group(Store, u), "remove_user_from_group", u)

RemoveUserFromPendingGroup ==
  \E u \in Users :
    Call(remove_user_from_pending_group(Store, u), "remove_user_from_pending_group", u)

NextStore ==
  \/ CreateGroup
  \/ JoinGroup
  \/ LeaveGroup
  \/ StartMatching
  \/ HandleAccept
  \/ AddGroup
  \/ AddPendingRequest
  \/ ApprovePendingRequest
  \/ RemoveUserFromGroup
  \/ RemoveUserFromPendingGroup

SpecStore == Init /\ [][NextStore]_vars

(***************************************************************************)
(* SpecAsync: handlers as coroutines.  A handler runs without interruption *)
(* from one await to the next; while it is suspended at an await, other    *)
(* handlers run.  inflight holds the suspended handlers that have yet to   *)
(* read or write the store.  After its update a handler only sends         *)
(* replies, which read and write nothing: it is let finish in the step of  *)
(* its update.                                                             *)
(***************************************************************************)
Calls ==
  {[op |-> "create_group", user |-> u, input |-> NoArgs] : u \in Users}
  \cup {[op |-> "join_group", user |-> u, input |-> args] : u \in Users, args \in JoinArgs}
  \cup {[op |-> "leave_group", user |-> u, input |-> NoArgs] : u \in Users}
  \cup {[op |-> "accept@", user |-> u, input |-> PyInt(p)] : u, p \in Users}

handler(call) ==
  CASE call.op = "create_group" -> create_group(call.user)
    [] call.op = "join_group" -> join_group(call.user, call.input)
    [] call.op = "leave_group" -> leave_group(call.user)
    [] call.op = "accept@" -> handle_settings_change(call.user, AcceptData(call.input.v))

\* create_group with an await between its test (lines 205-207) and its
\* add_group (line 213)
first_await_splits_create(op) ==
  IF op = "create_group" THEN "between_check_and_update"
  ELSE IF op = "accept@" THEN "before_checks"
  ELSE "after_update"

\* Where a handler first awaits.  The commands await only to reply, after
\* their last read or write of the store; handle_settings_change awaits
\* query.answer() (line 373) before it reads the store.
first_await(op) ==
  IF op = "accept@" THEN "before_checks" ELSE "after_update"

\* the part of a handler that follows its tests, run on the store as it is
update_of(call) ==
  CASE call.op = "create_group" -> add_group(Store, Group(call.user, call.user))
    [] call.op = "join_group" ->
         LET added == add_pending_request(Store, call.user, call.input.v) IN
         IF added.exc # "none" THEN added.S
         ELSE remove_user_from_group(added.S, call.user).S
    [] call.op = "leave_group" -> Store
    [] call.op = "accept@" ->
         IF admin_groups(Store, call.user) = {} THEN Store
         ELSE add_pending_request(Store, call.input.v,
                                  admin_group(Store, call.user)).S

ApplyAsync(r, op) ==
  /\ WithinBounds(r.S)
  /\ groups' = r.S.groups
  /\ user_to_group' = r.S.user_to_group
  /\ pending_requests' = r.S.pending_requests
  /\ bot_data' = r.bot_data
  /\ chat_data' = r.chat_data
  /\ last' = [op |-> op, outcome |-> r.outcome]

Suspend(call, at) ==
  /\ Cardinality(inflight) < MaxInflight
  /\ inflight' = inflight \cup {[call |-> call, at |-> at]}
  /\ bot_data' = setdefault_group_state
  /\ UNCHANGED <<groups, user_to_group, pending_requests, chat_data, last>>

\* an update arrives and its handler runs up to its first await
Arrive ==
  \E call \in Calls :
    /\ CASE first_await(call.op) = "before_checks" ->
              Suspend(call, "before_checks")
          [] first_await(call.op) = "between_check_and_update" ->
              IF handler(call).S # Store
                THEN Suspend(call, "between_check_and_update")
                ELSE ApplyAsync(handler(call), call.op) /\ UNCHANGED inflight
          [] first_await(call.op) = "after_update" ->
              ApplyAsync(handler(call), call.op) /\ UNCHANGED inflight
    /\ UNCHANGED matchVars

\* a suspended handler runs on from its await
Resume ==
  \E task \in inflight :
    /\ inflight' = inflight \ {task}
    /\ IF task.at = "before_checks"
         THEN ApplyAsync(handler(task.call), task.call.op)
         ELSE ApplyAsync(Result(update_of(task.call), bot_data, chat_data, "updated"),
                         task.call.op)
    /\ UNCHANGED matchVars

NextAsync ==
  \/ Arrive
  \/ Resume

SpecAsync == Init /\ [][NextAsync]_vars

(***************************************************************************)
(* The matching engine: secret_santa_pairing, loop, is_valid, dictize      *)
(***************************************************************************)
Range(list) == {list[i] : i \in DOMAIN list}

RECURSIVE dictize_loop(_, _, _, _)
\* the for loop of dictize from index i on: people[last_person] = this_person
dictize_loop(people_list, i, last_person, people) ==
  IF i > Len(people_list)
    THEN people
    ELSE dictize_loop(people_list, i + 1, people_list[i],
                      Put(people, last_person, people_list[i]))

\* dictize with last_person starting at the first person, not the last
dictize_no_wrap(people_list) ==
  dictize_loop(people_list, 1, people_list[1], EmptyMap)

\* dictize with the assignment turned round: people[this_person] = last_person
dictize_reversed(people_list) ==
  [p \in Range(people_list) |->
     LET i == CHOOSE j \in DOMAIN people_list : people_list[j] = p
     IN people_list[IF i = 1 THEN Len(people_list) ELSE i - 1]]

dictize(people_list) ==
  dictize_loop(people_list, 1, people_list[Len(people_list)], EmptyMap)

\* invalid_links.get(gifter, ())
links_get(links, gifter) == {l[2] : l \in {k \in links : k[1] = gifter}}

\* is_valid that never looks at invalid_links
is_valid_always(people_dict, links) == TRUE

is_valid(people_dict, links) ==
  \A gifter \in DOMAIN people_dict :
    people_dict[gifter] \notin links_get(links, gifter)

\* random.shuffle(list): the list in any order
Shuffles(list) ==
  {[i \in DOMAIN list |-> list[f[i]]] : f \in Permutations(DOMAIN list)}

\* the test of line 593 that never finds the time up
timed_out_never(start, time) == FALSE

\* start_time + TIMEOUT < time.time()
timed_out(start, time) == start + TIMEOUT < time

\* secret_santa_pairing calls loop(users, {})
secret_santa_links == {}

RECURSIVE SortedList(_)
SortedList(set) ==
  IF set = {} THEN << >>
  ELSE LET m == CHOOSE x \in set : \A y \in set : x <= y
       IN <<m>> \o SortedList(set \ {m})

\* the giver-receiver pairs among the people of a roster
ForbiddenPairs(roster) == {l \in roster \X roster : l[1] # l[2]}

\* a call loop(users, invalid_links) is about to start
InitMatch ==
  /\ StoreInit
  /\ \E roster \in SUBSET People :
       /\ roster # {}
       /\ users = SortedList(roster)
       /\ invalid_links \in {links \in SUBSET ForbiddenPairs(roster) :
                                Cardinality(links) <= MaxForbidden}
  /\ start_time = 0
  /\ now = 0
  /\ loop_pc = "called"
  /\ pairs = EmptyMap

\* lines 589-590
LoopEnter ==
  /\ loop_pc = "called"
  /\ start_time' = now
  /\ users' \in Shuffles(users)
  /\ loop_pc' = "while"
  /\ UNCHANGED <<storeVars, inflight, invalid_links, now, pairs>>

\* line 591 finds the candidate valid; line 595
LoopReturn ==
  /\ loop_pc = "while"
  /\ is_valid(dictize(users), invalid_links)
  /\ pairs' = dictize(users)
  /\ loop_pc' = "returned"
  /\ UNCHANGED <<storeVars, inflight, users, invalid_links, start_time, now>>

\* line 591 finds it invalid; lines 592-594
LoopRetry ==
  /\ loop_pc = "while"
  /\ ~is_valid(dictize(users), invalid_links)
  /\ users' \in Shuffles(users)
  /\ loop_pc' = IF timed_out(start_time, now) THEN "ValueError" ELSE "while"
  /\ UNCHANGED <<storeVars, inflight, invalid_links, start_time, now, pairs>>

\* the clock moves on while loop tries orders; past the deadline its value
\* no longer matters
Tick ==
  /\ loop_pc = "while"
  /\ now <= start_time + TIMEOUT
  /\ now' = now + 1
  /\ UNCHANGED <<storeVars, inflight, users, invalid_links, start_time, loop_pc, pairs>>

NextMatch ==
  \/ LoopEnter
  \/ LoopReturn
  \/ LoopRetry
  \/ Tick

SpecMatch == InitMatch /\ [][NextMatch]_vars

\* loop runs and time passes
SpecMatchFair ==
  /\ SpecMatch
  /\ WF_vars(LoopEnter)
  /\ WF_vars(LoopRetry)
  /\ WF_vars(Tick)

(***************************************************************************)
(* Properties.  A property of a call is stated at the state the call       *)
(* starts in: it applies the handler to that state and looks at the store  *)
(* and the outcome the handler yields.                                     *)
(***************************************************************************)
\* UserFiniteState.NoGroup: no pending request, no group, admin of none
NoGroup(u) ==
  /\ u \notin DOMAIN pending_requests
  /\ u \notin DOMAIN user_to_group
  /\ \A g \in DOMAIN groups : groups[g].admin # u

\* u has a pending request that names g
PendingFor(u, g) ==
  /\ u \in DOMAIN pending_requests
  /\ \E i \in DOMAIN pending_requests[u] : pending_requests[u][i] = g

\* the forms in which /join_group can name the group g
GroupArgs(g) == {PyStr(g), PyInt(g)}

\* outcomes that report success to the caller
Acknowledgements ==
  {"Group created successfully!", "You have requested to join group",
   "User accepted.", "You have left the group.", "Settings:",
   "Please send the new deadline in seconds (as an integer):"}

(***************************************************************************)
(* C1.  In every reachable state no participant id is in both the          *)
(* pending-requests map and the user-to-group map.                         *)
(***************************************************************************)
C1_NeverPendingAndJoined ==
  \A u \in Users : ~(u \in DOMAIN pending_requests /\ u \in DOMAIN user_to_group)

\* an approval has just moved a user into a group while another user waits
C1_Witness ==
  /\ last = [op |-> "approve_pending_request", outcome |-> "none"]
  /\ user_to_group # EmptyMap
  /\ pending_requests # EmptyMap

(***************************************************************************)
(* C2.  As claimed: a successful create_group by p leaves p mapped to the  *)
(* new group in the user-to-group map, and p is the admin of that group.   *)
(***************************************************************************)
C2_CreatorIsJoined ==
  \A u \in Users :
    LET r == create_group(u) IN
    r.outcome = "Group created successfully!" =>
      /\ u \in DOMAIN r.S.user_to_group
      /\ r.S.user_to_group[u] = u
      /\ r.S.groups[u].admin = u

\* C2, amended: a successful create_group by p registers the group whose id
\* is p's id with admin p, p is the admin of no other group, and p is in
\* neither the user-to-group map nor the pending-requests map.
C2_CreatorIsAdminOnly ==
  \A u \in Users :
    LET r == create_group(u) IN
    r.outcome = "Group created successfully!" =>
      /\ u \in DOMAIN r.S.groups
      /\ r.S.groups[u].admin = u
      /\ admin_groups(r.S, u) = {u}
      /\ u \notin DOMAIN r.S.user_to_group
      /\ u \notin DOMAIN r.S.pending_requests
      /\ r.S.user_to_group = user_to_group
      /\ r.S.pending_requests = pending_requests

\* a group has just been created; its admin is in neither map
C2_Witness ==
  /\ last = [op |-> "create_group", outcome |-> "Group created successfully!"]
  /\ \E g \in DOMAIN groups :
        /\ groups[g].admin = g
        /\ g \notin DOMAIN user_to_group
        /\ g \notin DOMAIN pending_requests

(***************************************************************************)
(* C3.  As claimed: join_group by a participant with no membership, for an *)
(* existing group of which they are not the admin, completes without       *)
(* error and leaves the participant pending for exactly that group.        *)
(***************************************************************************)
C3_JoinMakesPending ==
  \A u \in Users, g \in DOMAIN groups : \A args \in GroupArgs(g) :
    NoGroup(u) =>
      LET r == join_group(u, args) IN
      /\ r.outcome = "You have requested to join group"
      /\ r.S.pending_requests = Put(pending_requests, u, <<g>>)

(***************************************************************************)
(* C4.  As claimed: accept by the admin of g for a participant pending for *)
(* g puts the participant into the user-to-group map with g and removes    *)
(* the pending request.                                                    *)
(***************************************************************************)
C4_AcceptJoins ==
  \A a \in Users, p \in Users :
    (admin_groups(Store, a) # {} /\ PendingFor(p, admin_group(Store, a))) =>
      LET r == handle_settings_change(a, AcceptData(p)) IN
      /\ p \in DOMAIN r.S.user_to_group
      /\ r.S.user_to_group[p] = admin_group(Store, a)
      /\ p \notin DOMAIN r.S.pending_requests

(***************************************************************************)
(* C5.  As claimed: accept by an admin for a participant who is not        *)
(* pending for the admin's group fails with the not-pending reply and      *)
(* leaves the three maps as they were.                                     *)
(***************************************************************************)
C5_AcceptNotPendingRefused ==
  \A a \in Users, p \in Users :
    (admin_groups(Store, a) # {} /\ ~PendingFor(p, admin_group(Store, a))) =>
      LET r == handle_settings_change(a, AcceptData(p)) IN
      /\ r.outcome = "Sorry the user has not requested to join any group"
      /\ r.S = Store

(***************************************************************************)
(* C6.  As claimed: leave_group by the admin of a group is refused with    *)
(* "You cannot leave your own group." and changes nothing.                 *)
(***************************************************************************)
C6_AdminCannotLeave ==
  \A u \in Users :
    (\E g \in DOMAIN groups : groups[g].admin = u) =>
      LET r == leave_group(u) IN
      /\ r.outcome = "You cannot leave your own group."
      /\ r.S = Store

(***************************************************************************)
(* C7.  As claimed: leave_group by a member who is not an admin succeeds,  *)
(* removes the member from the user-to-group map, leaves them without a    *)
(* pending request, and changes no other record.                           *)
(***************************************************************************)
C7_MemberLeaves ==
  \A u \in Users :
    (u \in DOMAIN user_to_group /\ \A g \in DOMAIN groups : groups[g].admin # u) =>
      LET r == leave_group(u) IN
      /\ r.outcome = "You have left the group."
      /\ r.S.user_to_group = Pop(user_to_group, u)
      /\ u \notin DOMAIN r.S.pending_requests
      /\ r.S.pending_requests = pending_requests
      /\ r.S.groups = groups

(***************************************************************************)
(* C8.  As claimed: a handler call that ends in an error reply or in an    *)
(* exception leaves groups, user-to-group map and pending-requests map as  *)
(* they were before the call.                                              *)
(***************************************************************************)
FailedCallKeepsStore(r) == r.outcome \notin Acknowledgements => r.S = Store

C8_AllOrNothing ==
  \A u \in Users :
    /\ FailedCallKeepsStore(create_group(u))
    /\ \A args \in JoinArgs : FailedCallKeepsStore(join_group(u, args))
    /\ \A data \in CallbackData : FailedCallKeepsStore(handle_settings_change(u, data))
    /\ FailedCallKeepsStore(leave_group(u))
    /\ FailedCallKeepsStore(start_matching(u))

(***************************************************************************)
(* C9.  As claimed: join_group by a participant who already has a          *)
(* membership is refused with "You are already in a group." and changes    *)
(* nothing, and a pending record names one group, once.  Stated for a      *)
(* group id that passes the lookup of line 250 (an int key of __groups).   *)
(***************************************************************************)
C9_RejoinRefused ==
  /\ \A u \in Users, g \in DOMAIN groups :
       ~NoGroup(u) =>
         LET r == join_group(u, PyInt(g)) IN
         /\ r.outcome = "You are already in a group."
         /\ r.S = Store
  /\ \A u \in DOMAIN pending_requests : Len(pending_requests[u]) = 1

(***************************************************************************)
(* C10.  create_group by a participant who is pending, in a group or the   *)
(* admin of one is refused with "you are already in a group." and leaves   *)
(* every map as it was; every participant is the admin of at most one      *)
(* group.                                                                  *)
(***************************************************************************)
C10_CreateRefusedWhenAffiliated ==
  /\ \A u \in Users :
       ~NoGroup(u) =>
         LET r == create_group(u) IN
         /\ r.outcome = "you are already in a group."
         /\ r.S = Store
  /\ \A u \in Users : Cardinality(admin_groups(Store, u)) <= 1

\* create_group has just been refused where every user is an admin whose
\* settings were changed, or has a pending request
C10_Witness ==
  /\ last = [op |-> "create_group", outcome |-> "you are already in a group."]
  /\ \A u \in Users : ~NoGroup(u)
  /\ \E g \in DOMAIN groups : groups[g].settings # Settings
  /\ pending_requests # EmptyMap

(***************************************************************************)
(* C11.  As claimed: join_group by the admin of g that names g is refused  *)
(* with an error of its own, neither the already-in-a-group reply nor the  *)
(* invalid-group reply, and leaves the three maps as they were.            *)
(***************************************************************************)
C11_SelfJoinHasOwnError ==
  \A u \in Users, g \in DOMAIN groups :
    groups[g].admin = u =>
      LET r == join_group(u, PyInt(g)) IN
      /\ r.outcome \notin Acknowledgements
      /\ r.outcome \notin {"You are already in a group.", "Invalid group ID."}
      /\ r.S = Store

\* C11, amended: join_group by the admin of g that names g is refused with
\* "You are already in a group." (with "Invalid group ID." when the id
\* arrives as a str) and leaves the three maps as they were, and in every
\* reachable state no admin of a group has a pending request for that group.
C11_AdminNeverPendingForOwnGroup ==
  /\ \A u \in Users, g \in DOMAIN groups : \A args \in GroupArgs(g) :
       groups[g].admin = u =>
         LET r == join_group(u, args) IN
         /\ r.outcome \in {"You are already in a group.", "Invalid group ID."}
         /\ r.S = Store
  /\ \A g \in DOMAIN groups : ~PendingFor(groups[g].admin, g)

\* the admin of the only group has just been refused, after an accept left
\* another user pending for that group twice
C11_Witness ==
  /\ last = [op |-> "join_group", outcome |-> "You are already in a group."]
  /\ Cardinality(DOMAIN groups) = 1
  /\ \E p \in DOMAIN pending_requests : Len(pending_requests[p]) = 2

(***************************************************************************)
(* C12.  An accept pressed by a participant who is the admin of no group   *)
(* is refused with the permission reply and changes no map and no          *)
(* settings.                                                               *)
(***************************************************************************)
C12_OnlyAdminAccepts ==
  \A a \in Users, p \in Users :
    (\A g \in DOMAIN groups : groups[g].admin # a) =>
      LET r == handle_settings_change(a, AcceptData(p)) IN
      /\ r.outcome = "You do not have permission to change settings."
      /\ r.S = Store

\* a pending user has just pressed Accept for their own request
C12_Witness ==
  /\ last = [op |-> "accept@", outcome |-> "You do not have permission to change settings."]
  /\ \E p \in DOMAIN pending_requests : \E g \in DOMAIN groups : PendingFor(p, g)

(***************************************************************************)
(* C16.  As claimed: start_matching by an admin whose roster would hold    *)
(* fewer than two people (the admin of a group without members) is         *)
(* answered "Not enough participants for matching." and changes nothing.   *)
(***************************************************************************)
JoinedMembers(g) == {m \in DOMAIN user_to_group : user_to_group[m] = g}

ExpectedRoster(g) ==
  JoinedMembers(g) \cup (IF groups[g].settings.include_admin
                           THEN {groups[g].admin} ELSE {})

C16_TooFewParticipantsRefused ==
  \A u \in Users, g \in DOMAIN groups :
    (groups[g].admin = u /\ Cardinality(ExpectedRoster(g)) < 2) =>
      LET r == start_matching(u) IN
      /\ r.outcome = "Not enough participants for matching."
      /\ r.S = Store

(***************************************************************************)
(* C17.  As claimed: for the admin of a group start_matching builds the    *)
(* roster of the group's joined members, with the admin in it if and only  *)
(* if include_admin is set.                                                *)
(***************************************************************************)
C17_RosterFollowsIncludeAdmin ==
  \A u \in Users, g \in DOMAIN groups :
    groups[g].admin = u =>
      LET m == start_matching_users(u) IN
      /\ m.built
      /\ Range(m.users) = ExpectedRoster(g)

(***************************************************************************)
(* C18.  Settings change only by a settings button pressed by the group's  *)
(* own admin: no other handler call changes any group's settings; a        *)
(* settings button pressed by a user who is no admin changes nothing in    *)
(* the store; one pressed by the admin of g leaves every other group, the  *)
(* admin of g, the user-to-group map and the pending requests as they      *)
(* were.                                                                   *)
(***************************************************************************)
KeepsSettings(r) ==
  \A g \in DOMAIN groups :
    g \in DOMAIN r.S.groups /\ r.S.groups[g].settings = groups[g].settings

C18_SettingsChangeOnlyByOwnAdmin ==
  \A u \in Users :
    /\ KeepsSettings(create_group(u))
    /\ KeepsSettings(leave_group(u))
    /\ KeepsSettings(start_matching(u))
    /\ KeepsSettings(text_handler(u))
    /\ \A args \in JoinArgs : KeepsSettings(join_group(u, args))
    /\ \A p \in Users : KeepsSettings(handle_settings_change(u, AcceptData(p)))
    /\ \A data \in SettingsData :
         LET r == handle_settings_change(u, data) IN
         /\ (\A g \in DOMAIN groups : groups[g].admin # u) => r.S = Store
         /\ DOMAIN r.S.groups = DOMAIN groups
         /\ \A g \in DOMAIN groups :
              /\ groups[g].admin # u => r.S.groups[g] = groups[g]
              /\ r.S.groups[g].admin = groups[g].admin
         /\ r.S.user_to_group = user_to_group
         /\ r.S.pending_requests = pending_requests

\* an admin has just toggled include_admin, and the two groups now differ
\* in that setting
C18_Witness ==
  /\ last = [op |-> "toggle_include_admin", outcome |-> "Settings:"]
  /\ \E g, h \in DOMAIN groups :
       groups[g].settings.include_admin # groups[h].settings.include_admin

(***************************************************************************)
(* C13.  For a roster of two or more distinct people and no forbidden      *)
(* pair, loop never retries and never raises, and the dict it returns has  *)
(* one pair per person, every person once as giver and once as receiver,   *)
(* and nobody paired with themself.                                        *)
(***************************************************************************)
C13_PairingCoversRoster ==
  (invalid_links = secret_santa_links /\ Len(users) >= 2) =>
    /\ loop_pc # "ValueError"
    /\ loop_pc = "while" => is_valid(dictize(users), invalid_links)
    /\ loop_pc = "returned" =>
         /\ DOMAIN pairs = Range(users)
         /\ Cardinality(DOMAIN pairs) = Len(users)
         /\ {pairs[g] : g \in DOMAIN pairs} = Range(users)
         /\ \A g \in DOMAIN pairs : pairs[g] # g

\* loop has returned a pairing of three people with nothing forbidden
C13_Witness ==
  /\ loop_pc = "returned"
  /\ invalid_links = secret_santa_links
  /\ Len(users) = MaxRoster
  /\ pairs = dictize(users)

(***************************************************************************)
(* C14.  Whenever loop has returned, no pair of the returned dict is a     *)
(* forbidden giver-receiver pair.                                          *)
(***************************************************************************)
C14_NoForbiddenPair ==
  loop_pc = "returned" =>
    \A g \in DOMAIN pairs : <<g, pairs[g]>> \notin invalid_links

\* loop has returned for three people under two forbidden pairs, after the
\* clock has moved
C14_Witness ==
  /\ loop_pc = "returned"
  /\ Cardinality(invalid_links) = MaxForbidden
  /\ Len(users) = MaxRoster
  /\ now > start_time

(***************************************************************************)
(* C15.  If no order of the roster is valid, loop never returns and, as    *)
(* time passes, ends by raising ValueError("Could not solve.").            *)
(***************************************************************************)
Infeasible ==
  \A order \in Shuffles(users) : ~is_valid(dictize(order), invalid_links)

StoreStepIsHandlerCall ==
  Store' # Store => \E call \in Calls : Store' = handler(call).S

C19_UpdatesAreWholeHandlerCalls == [][StoreStepIsHandlerCall]_vars

\* an accept has resumed and gone through while another accept for the same
\* user was suspended
C19_Witness ==
  /\ last = [op |-> "accept@", outcome |-> "User accepted."]
  /\ \E task \in inflight, p \in DOMAIN pending_requests :
       /\ task.call.input = PyInt(p)
       /\ Len(pending_requests[p]) = 2

(***************************************************************************)
(* C20.  For a list of two or more distinct people dictize maps each       *)
(* person to the next in the list and the last to the first: one cycle     *)
(* through all of them, with no fixed point.                               *)
(***************************************************************************)
RECURSIVE Follow(_, _, _)
\* the person reached from p after k steps along d
Follow(d, p, k) == IF k = 0 THEN p ELSE Follow(d, d[p], k - 1)

C20_DictizeIsOneCycle ==
  Len(users) >= 2 =>
    LET n == Len(users)
        d == dictize(users)
    IN /\ DOMAIN d = Range(users)
       /\ \A i \in 1..n : d[users[i]] = users[(i % n) + 1]
       /\ \A k \in 1..(n - 1) : Follow(d, users[1], k) # users[1]
       /\ Follow(d, users[1], n) = users[1]
       /\ \A p \in DOMAIN d : d[p] # p

\* three people in an order that is not the sorted one, and their cycle
C20_Witness ==
  /\ Len(users) = MaxRoster
  /\ users # SortedList(Range(users))
  /\ loop_pc = "returned"
  /\ Cardinality(DOMAIN pairs) = MaxRoster

(***************************************************************************)
(* C21.  As claimed: start_matching by the admin of a group runs a         *)
(* matching on a roster that holds nobody twice, and leaves the groups,    *)
(* the user-to-group map and the pending requests as they were.            *)
(***************************************************************************)
C21_MatchingRunKeepsMembership ==
  \A u \in Users, g \in DOMAIN groups :
    groups[g].admin = u =>
      LET r == start_matching(u)
          m == start_matching_users(u)
      IN /\ r.S = Store
         /\ m.built
         /\ \A i, j \in DOMAIN m.users : m.users[i] = m.users[j] => i = j

(***************************************************************************)
(* C22.  Every group id held in a pending request or in the user-to-group  *)
(* map is the id of a group in the registry, in every state the GroupState *)
(* operations and the handlers built on them can reach.                    *)
(***************************************************************************)
C22_GroupIdsAreRegistered ==
  /\ \A u \in DOMAIN pending_requests :
       \A i \in DOMAIN pending_requests[u] : pending_requests[u][i] \in DOMAIN groups
  /\ \A u \in DOMAIN user_to_group : user_to_group[u] \in DOMAIN groups

\* one user has joined a group while the other is pending for the other
\* group
C22_Witness ==
  /\ \E u \in DOMAIN user_to_group, p \in DOMAIN pending_requests :
       /\ u # p
       /\ Len(pending_requests[p]) >= 1
       /\ pending_requests[p][1] # user_to_group[u]

====
